---- MODULE Spec2Model ----
(***************************************************************************)
(* State-machine model of the live voice assistant front-end of           *)
(* src/App.tsx: the React component App, its session lifecycle            *)
(* (startSession / stopSession and the callbacks handed to                *)
(* ai.live.connect), the tool-call dispatcher of onmessage, the playback  *)
(* scheduler (nextStartTimeRef / sourcesRef) and the capture callback.    *)
(*                                                                         *)
(* src/App.tsx holds two variants of the component: lines 1-311 (variant  *)
(* 1: commands updateVerseDisplay and toggleVerseLock, no lock check) and *)
(* lines 312-706 (variant 2: commands updateVerseDisplay and              *)
(* setTranslation, lockRef / translationRef).  The variable `variant`     *)
(* selects the one a behaviour runs; Spec runs variant 2, SpecV1          *)
(* variant 1.                                                              *)
(*                                                                         *)
(* Scheduling: one event loop.  Every action but RunMicrotask is a        *)
(* macrotask (a user click, an SDK callback, a device callback, the       *)
(* continuation of an await on a device or network promise) and runs only *)
(* when the microtask queue is empty.  sessionPromise.then(cb) queues cb  *)
(* as a microtask when the promise is already resolved and attaches it to *)
(* the promise's reaction list while it is pending.                       *)
(*                                                                         *)
(* Environment.  The SDK behind ai.live.connect and the audio helpers      *)
(* (decode, decodeAudioData, createPcmBlob) are not part of src/; the      *)
(* model takes of them only what the calls in App.tsx rely on:             *)
(*  - onopen fires before the promise of connect resolves (the capture     *)
(*    callback wired in onopen reaches the session through                 *)
(*    sessionPromise.then), and the promise resolves at some later task;   *)
(*  - onmessage fires while the connection is open, and may still fire     *)
(*    after close() was requested, until onclose;                          *)
(*  - onerror fires at most once per connection and only onclose follows   *)
(*    it;                                                                  *)
(*  - `await decodeAudioData` suspends the handler, and handlers of        *)
(*    different messages resume in any order;                              *)
(*  - source.start(when) with `when` in the past plays at once;            *)
(*  - a setState in a click handler is committed (render and effects)      *)
(*    before the next task, one in any other callback at a later task.     *)
(*  - the highlight timer of a narration and the end of its clip are      *)
(*    tasks of their own and come in any order (timers may run late);      *)
(*  - a send that throws inside a sessionPromise.then callback affects     *)
(*    nothing but that callback.                                           *)
(***************************************************************************)
EXTENDS Integers, Sequences, FiniteSets, TLC

\* ------------------------------------------------------------- bounds
MaxSessions == 2    \* startSession calls in one behaviour
MaxCalls == 2       \* function calls delivered in one behaviour
MaxBatch == 2       \* function calls in one toolCall message
MaxFrames == 2      \* capture callbacks in one behaviour
MaxChunks == 3      \* audio chunks delivered in one behaviour
MaxTime == 2        \* last value of the output context clock
MaxReads == 2       \* handleReadAloud requests in one behaviour

Sessions == 1..MaxSessions
Reads == 1..MaxReads

\* SessionStatus (src/unnamed/part_002)
IDLE == "IDLE"
CONNECTING == "CONNECTING"
LISTENING == "LISTENING"
ERROR == "ERROR"
SessionStatus == {IDLE, CONNECTING, LISTENING, ERROR}

NULL == "null"
\* currentVerse = null (no verse shown yet)
NoVerse == [reference |-> "", text |-> "", translation |-> ""]

\* A handleReadAloud call that has not been made.
NoRead == [pc |-> "unused", words |-> 0, timer |-> FALSE]

\* text.split(/\s+/) on the verse texts of the model: a text without white
\* space (the empty one too) is one element.
Words(text) ==
  IF text = "For God so loved the world"
    THEN <<"For", "God", "so", "loved", "the", "world">>
    ELSE <<text>>

VARIABLES
  variant,            \* 1 or 2: which App of src/App.tsx runs
  \* React state (useState)
  status, isAuthorized, currentVerse, defaultTranslation, isLocked,
  isReadingAloud, activeWordIndex,
  \* the values the handlers of the last committed render closed over
  rendered,
  \* refs (useRef)
  sessionPromiseRef, audioContextsRef, micStreamRef, sourcesRef,
  nextStartTimeRef, translationRef, lockRef,
  \* one entry per startSession call (its local variables and closures)
  pc,                 \* where the async function startSession stands
  closureStatus,      \* `status` as closed over by the call's callbacks
  mic,                \* the call's MediaStream: none / live / stopped
  ctx,                \* the call's inputCtx and outputCtx: none / open / closing / closed
  conn,               \* the remote session: none / connecting / open / closing / closed / failed
  promise,            \* sessionPromise: none / pending / resolved / rejected
  reactions,          \* callbacks attached to the pending sessionPromise
  capture,            \* scriptProcessor.onaudioprocess is installed
  stopped,            \* stopSession has run on this call's session
  \* one entry per handleReadAloud call that passed its guard
  reads,              \* where the call stands, its words, its interval timer
  \* event loop
  microtasks,
  \* output device
  clock,              \* currentTime of audioContextsRef.current.output
  inflight,           \* onmessage handlers suspended at await decodeAudioData
  \* observation of what the program did (history)
  calls,              \* function calls dispatched: id -> what the dispatcher did
  toolResponses,      \* sendToolResponse invocations, in order
  frames,             \* sendRealtimeInput invocations
  nFrames, nChunks,   \* capture callbacks / chunks so far
  sched,              \* the chunks started since the last hard stop
  freshStop           \* a hard stop happened and no chunk has arrived since

vars == <<variant, status, isAuthorized, currentVerse, defaultTranslation,
          isLocked, isReadingAloud, activeWordIndex, reads, rendered, sessionPromiseRef, audioContextsRef,
          micStreamRef, sourcesRef, nextStartTimeRef, translationRef, lockRef,
          pc, closureStatus, mic, ctx, conn, promise, reactions, capture,
          stopped, microtasks, clock, inflight, calls, toolResponses, frames,
          nFrames, nChunks, sched, freshStop>>

reactVars == <<status, isAuthorized, currentVerse, defaultTranslation, isLocked>>
renderVars == <<rendered, translationRef, lockRef>>
sessionRefs == <<sessionPromiseRef, audioContextsRef, micStreamRef>>
playVars == <<sourcesRef, nextStartTimeRef, inflight, nChunks, sched, freshStop>>
startVars == <<pc, closureStatus, mic, ctx>>
connVars == <<conn, promise, reactions, capture>>
histVars == <<calls, toolResponses, frames, nFrames>>
readVars == <<isReadingAloud, activeWordIndex, reads>>

Max(a, b) == IF a >= b THEN a ELSE b

\* ------------------------------------------------------------ rendering
\* What a render of App hands to its handlers: onClick of AnimatedMic picks
\* stopSession or startSession by `status`, onToggleLock computes !isLocked,
\* the lock button exists only when a verse is shown, and the main screen is
\* shown only when authorized.
RenderOf(st, lk, au, v) ==
  [status |-> st, isLocked |-> lk, isAuthorized |-> au, hasVerse |-> v # NoVerse,
   verse |-> v, isReadingAloud |-> isReadingAloud]

\* The main screen (mic button, lock button) is rendered: variant 2 shows a
\* spinner while isAuthorized is null, both show the activation screen when it
\* is false.
MainScreen ==
  IF variant = 1 THEN rendered.isAuthorized # "false"
                 ELSE rendered.isAuthorized = "true"

\* The commit of a render: the handlers close over the current state and the
\* effects copy defaultTranslation and isLocked into their refs.
Commit(st, lk, au, v, tr) ==
  /\ rendered' = RenderOf(st, lk, au, v)
  /\ translationRef' = tr
  /\ lockRef' = lk

\* ------------------------------------------------------------ promises
SendCb(s, n) == [kind |-> "send", sess |-> s, id |-> n, name |-> "", arg |-> ""]
CloseCb(s) == [kind |-> "close", sess |-> s, id |-> 0, name |-> "", arg |-> ""]
\* a tool response whose payload is fixed when the callback is created
RespondCb(s, id, name, arg) ==
  [kind |-> "respond", sess |-> s, id |-> id, name |-> name, arg |-> arg]
\* a tool response whose payload reads lockRef.current when the callback runs
RespondLockCb(s, id, name) ==
  [kind |-> "respondLock", sess |-> s, id |-> id, name |-> name, arg |-> ""]

\* (callbacks put in front of those queued earlier)
ThenAllFirst(s, cbs) ==
  /\ microtasks' = IF promise[s] = "resolved" THEN cbs \o microtasks ELSE microtasks
  /\ reactions' = IF promise[s] = "pending"
                    THEN [reactions EXCEPT ![s] = cbs \o @] ELSE reactions

\* sessionPromise.then(cb) for each cb of cbs, in order: a microtask when the
\* promise is resolved, a reaction while it is pending, never run once rejected.
ThenAll(s, cbs) ==
  /\ microtasks' = IF promise[s] = "resolved" THEN microtasks \o cbs ELSE microtasks
  /\ reactions' = IF promise[s] = "pending"
                    THEN [reactions EXCEPT ![s] = @ \o cbs] ELSE reactions

\* ------------------------------------------------------------- playback
\* stopAllAudio: stop every source, clear the set, reset the cursor.
\* (The handlers suspended at a decode are not touched by the code; the model
\* marks them `stale` to tell later which chunks arrived before the stop.)
NoStop == [by |-> "none", k |-> 0]
StopAllAudio(by, active, suspended) ==
  /\ sourcesRef' = {}
  /\ nextStartTimeRef' = 0
  /\ sched' = <<>>
  /\ freshStop' = [by |-> by, k |-> Cardinality(active)]
  /\ inflight' = [j \in 1..Len(suspended) |-> [suspended[j] EXCEPT !.stale = TRUE]]

\* ---------------------------------------------------------------- Init
InitCommon ==
  /\ status = IDLE
  /\ isAuthorized = NULL
  /\ currentVerse = NoVerse
  /\ defaultTranslation = "NIV"
  /\ isLocked = FALSE
  /\ isReadingAloud = FALSE
  /\ activeWordIndex = -1
  /\ reads = [n \in Reads |-> NoRead]
  /\ rendered = RenderOf(IDLE, FALSE, NULL, NoVerse)
  /\ sessionPromiseRef = 0
  /\ audioContextsRef = 0
  /\ micStreamRef = 0
  /\ sourcesRef = {}
  /\ nextStartTimeRef = 0
  /\ translationRef = "NIV"
  /\ lockRef = FALSE
  /\ pc = [s \in Sessions |-> "unused"]
  /\ closureStatus = [s \in Sessions |-> IDLE]
  /\ mic = [s \in Sessions |-> "none"]
  /\ ctx = [s \in Sessions |-> "none"]
  /\ conn = [s \in Sessions |-> "none"]
  /\ promise = [s \in Sessions |-> "none"]
  /\ reactions = [s \in Sessions |-> <<>>]
  /\ capture = [s \in Sessions |-> FALSE]
  /\ stopped = [s \in Sessions |-> FALSE]
  /\ microtasks = <<>>
  /\ clock = 0
  /\ inflight = <<>>
  /\ calls = <<>>
  /\ toolResponses = <<>>
  /\ frames = <<>>
  /\ nFrames = 0
  /\ nChunks = 0
  /\ sched = <<>>
  /\ freshStop = NoStop

Init == variant = 2 /\ InitCommon
InitV1 == variant = 1 /\ InitCommon
InitAny == variant \in {1, 2} /\ InitCommon

Macrotask == microtasks = <<>>

\* ---------------------------------------------------- authorization gate
\* checkAuth (the mount effect): hasSelectedApiKey answers, or throws.
CheckAuth(hasKey) ==
  /\ Macrotask
  /\ isAuthorized = NULL
  /\ isAuthorized' = hasKey
  /\ UNCHANGED <<variant, readVars, status, currentVerse, defaultTranslation, isLocked,
                 renderVars, sessionRefs, playVars, clock, startVars, connVars,
                 stopped, microtasks, histVars>>

\* handleAuthorize, the button of the activation screen: openSelectKey is
\* awaited, then setIsAuthorized(true), whether it resolved or threw.
HandleAuthorize ==
  /\ Macrotask
  /\ rendered.isAuthorized = "false"
  /\ isAuthorized' = "true"
  /\ UNCHANGED <<variant, readVars, status, currentVerse, defaultTranslation, isLocked,
                 renderVars, sessionRefs, playVars, clock, startVars, connVars,
                 stopped, microtasks, histVars>>

\* The Reset button of the header, rendered only while status is ERROR:
\* setIsAuthorized(false) and nothing else.
Reset ==
  /\ Macrotask
  /\ MainScreen
  /\ rendered.status = ERROR
  /\ isAuthorized' = "false"
  /\ Commit(status, isLocked, "false", currentVerse, defaultTranslation)
  /\ UNCHANGED <<variant, readVars, status, currentVerse, defaultTranslation, isLocked,
                 sessionRefs, playVars, clock, startVars, connVars, stopped,
                 microtasks, histVars>>

\* A render scheduled by a setState outside a click handler (an SDK callback,
\* the continuation of an await) commits later, as a task of its own.
Render ==
  /\ Macrotask
  /\ \/ rendered # RenderOf(status, isLocked, isAuthorized, currentVerse)
     \/ translationRef # defaultTranslation
     \/ lockRef # isLocked
  /\ Commit(status, isLocked, isAuthorized, currentVerse, defaultTranslation)
  /\ UNCHANGED <<variant, readVars, reactVars, sessionRefs, playVars, clock, startVars,
                 connVars, stopped, microtasks, histVars>>

\* ------------------------------------------------------- session lifecycle
\* startSession up to its first await (a click on AnimatedMic while the
\* rendered status is not LISTENING): setStatus(CONNECTING), stopAllAudio(),
\* then getUserMedia is awaited.  The callbacks this call creates close over
\* the `status` of the render that created startSession.
StartSession ==
  /\ Macrotask
  /\ MainScreen
  /\ rendered.status # LISTENING
  /\ \E s \in Sessions:
       /\ pc[s] = "unused"
       /\ \A t \in Sessions: t < s => pc[t] # "unused"
       /\ pc' = [pc EXCEPT ![s] = "getUserMedia"]
       /\ closureStatus' = [closureStatus EXCEPT ![s] = rendered.status]
  /\ status' = CONNECTING
  /\ StopAllAudio("start", sourcesRef, inflight)
  /\ Commit(CONNECTING, isLocked, isAuthorized, currentVerse, defaultTranslation)
  /\ UNCHANGED <<variant, readVars, isAuthorized, currentVerse, defaultTranslation,
                 isLocked, sessionRefs, nChunks, clock, mic, ctx,
                 connVars, stopped, microtasks, histVars>>

\* getUserMedia resolves: micStreamRef is set and both AudioContexts are
\* constructed; their resume() is awaited.
GetUserMediaOk(s) ==
  /\ Macrotask
  /\ pc[s] = "getUserMedia"
  /\ pc' = [pc EXCEPT ![s] = "resume"]
  /\ micStreamRef' = s
  /\ mic' = [mic EXCEPT ![s] = "live"]
  /\ ctx' = [ctx EXCEPT ![s] = "open"]
  /\ UNCHANGED <<variant, readVars, reactVars, renderVars, sessionPromiseRef,
                 audioContextsRef, playVars, clock, closureStatus, connVars,
                 stopped, microtasks, histVars>>

\* (the failure path with the catch block left empty)
StartFailsSilently(s) ==
  /\ Macrotask
  /\ pc[s] \in {"getUserMedia", "resume"}
  /\ pc' = [pc EXCEPT ![s] = "failed"]
  /\ UNCHANGED <<variant, readVars, reactVars, renderVars, sessionRefs, playVars, clock,
                 closureStatus, mic, ctx, connVars, stopped, microtasks,
                 histVars>>

\* getUserMedia or a resume() rejects: the catch block sets ERROR.
StartFails(s) ==
  /\ Macrotask
  /\ pc[s] \in {"getUserMedia", "resume"}
  /\ pc' = [pc EXCEPT ![s] = "failed"]
  /\ status' = ERROR
  /\ UNCHANGED <<variant, readVars, isAuthorized, currentVerse, defaultTranslation,
                 isLocked, renderVars, sessionRefs, playVars, clock,
                 closureStatus, mic, ctx, connVars, stopped, microtasks,
                 histVars>>

\* both resume() resolve: audioContextsRef is set, ai.live.connect is called
\* and its promise stored in sessionPromiseRef.
ResumeOk(s) ==
  /\ Macrotask
  /\ pc[s] = "resume"
  /\ pc' = [pc EXCEPT ![s] = "connected"]
  /\ audioContextsRef' = s
  /\ clock' = 0
  /\ conn' = [conn EXCEPT ![s] = "connecting"]
  /\ promise' = [promise EXCEPT ![s] = "pending"]
  /\ sessionPromiseRef' = s
  /\ UNCHANGED <<variant, readVars, reactVars, renderVars, micStreamRef, playVars,
                 closureStatus, mic, ctx, reactions, capture, stopped,
                 microtasks, histVars>>

\* callbacks.onopen: setStatus(LISTENING) and the capture pipeline is wired.
OnOpen(s) ==
  /\ Macrotask
  /\ conn[s] = "connecting"
  /\ conn' = [conn EXCEPT ![s] = "open"]
  /\ status' = LISTENING
  /\ capture' = [capture EXCEPT ![s] = TRUE]
  /\ UNCHANGED <<variant, readVars, isAuthorized, currentVerse, defaultTranslation,
                 isLocked, renderVars, sessionRefs, playVars, clock, startVars,
                 promise, reactions, stopped, microtasks, histVars>>

\* The promise of ai.live.connect resolves with the session, once the
\* connection has opened; the reactions attached so far become microtasks.
PromiseResolve(s) ==
  /\ Macrotask
  /\ promise[s] = "pending"
  /\ conn[s] \in {"open", "closed"}
  /\ promise' = [promise EXCEPT ![s] = "resolved"]
  /\ microtasks' = reactions[s]
  /\ reactions' = [reactions EXCEPT ![s] = <<>>]
  /\ UNCHANGED <<variant, readVars, reactVars, renderVars, sessionRefs, playVars, clock,
                 startVars, conn, capture, stopped, histVars>>

\* The status onerror leaves: variant 1 always sets ERROR; variant 2 only when
\* the message names a missing entity (notFound).
StatusAfterError(notFound) ==
  IF variant = 1 \/ notFound THEN ERROR ELSE status

\* callbacks.onerror, once per connection: the transport has failed and only
\* its close can follow; a connection that fails before it opened never
\* yields its session (the promise is settled as rejected).  A missing entity
\* also drops the authorization.
OnError(s, notFound) ==
  /\ Macrotask
  /\ conn[s] \in {"connecting", "open", "closing"}
  /\ conn' = [conn EXCEPT ![s] = "failed"]
  /\ promise' = IF conn[s] = "connecting"
                  THEN [promise EXCEPT ![s] = "rejected"] ELSE promise
  /\ reactions' = IF conn[s] = "connecting"
                    THEN [reactions EXCEPT ![s] = <<>>] ELSE reactions
  /\ status' = StatusAfterError(notFound)
  /\ isAuthorized' = IF notFound THEN "false" ELSE isAuthorized
  /\ UNCHANGED <<variant, readVars, currentVerse, defaultTranslation, isLocked,
                 renderVars, sessionRefs, playVars, clock, startVars, capture,
                 stopped, microtasks, histVars>>

\* callbacks.onclose: the guard reads the status the call closed over.
OnClose(s) ==
  /\ Macrotask
  /\ conn[s] \in {"open", "closing", "failed"}
  /\ conn' = [conn EXCEPT ![s] = "closed"]
  /\ status' = IF closureStatus[s] # ERROR THEN IDLE ELSE status
  /\ UNCHANGED <<variant, readVars, isAuthorized, currentVerse, defaultTranslation,
                 isLocked, renderVars, sessionRefs, playVars, clock, startVars,
                 promise, reactions, capture, stopped, microtasks, histVars>>

\* stopSession (a click on AnimatedMic while the rendered status is
\* LISTENING): s.close() is deferred through sessionPromiseRef.current.then,
\* the tracks of micStreamRef.current are stopped, close() is requested on
\* both contexts of audioContextsRef.current, setStatus(IDLE).
StopSession ==
  /\ Macrotask
  /\ MainScreen
  /\ rendered.status = LISTENING
  /\ IF sessionPromiseRef # 0
       THEN /\ ThenAll(sessionPromiseRef, <<CloseCb(sessionPromiseRef)>>)
            /\ stopped' = [stopped EXCEPT ![sessionPromiseRef] = TRUE]
       ELSE UNCHANGED <<microtasks, reactions, stopped>>
  /\ mic' = IF micStreamRef # 0
              THEN [mic EXCEPT ![micStreamRef] = "stopped"] ELSE mic
  /\ ctx' = IF audioContextsRef # 0 /\ ctx[audioContextsRef] = "open"
              THEN [ctx EXCEPT ![audioContextsRef] = "closing"] ELSE ctx
  /\ status' = IDLE
  /\ Commit(IDLE, isLocked, isAuthorized, currentVerse, defaultTranslation)
  /\ UNCHANGED <<variant, readVars, isAuthorized, currentVerse, defaultTranslation,
                 isLocked, sessionRefs, playVars, clock, pc, closureStatus,
                 conn, promise, capture, histVars>>

\* AudioContext.close() completes: the context stops processing.
CtxClosed(s) ==
  /\ Macrotask
  /\ ctx[s] = "closing"
  /\ ctx' = [ctx EXCEPT ![s] = "closed"]
  /\ UNCHANGED <<variant, readVars, reactVars, renderVars, sessionRefs, playVars, clock,
                 pc, closureStatus, mic, connVars, stopped, microtasks,
                 histVars>>

\* onToggleLock, the lock button of DisplayScreen: setIsLocked(!isLocked) with
\* the isLocked of the render that created the handler.
ToggleLock ==
  /\ Macrotask
  /\ MainScreen
  /\ rendered.hasVerse
  /\ isLocked' = ~rendered.isLocked
  /\ Commit(status, ~rendered.isLocked, isAuthorized, currentVerse,
            defaultTranslation)
  /\ UNCHANGED <<variant, readVars, status, isAuthorized, currentVerse,
                 defaultTranslation, sessionRefs, playVars, clock, startVars,
                 connVars, stopped, microtasks, histVars>>

\* --------------------------------------------------------------- narration
\* handleReadAloud up to its first await (a click on the Recite button, which
\* is rendered when a verse is shown and disabled while isReading): the guard
\* reads the currentVerse and isReadingAloud of the render that created the
\* handler; setIsReadingAloud(true), setActiveWordIndex(0), then
\* generateContent is awaited.
HandleReadAloud ==
  /\ Macrotask
  /\ MainScreen
  /\ rendered.hasVerse
  /\ ~rendered.isReadingAloud
  /\ \E n \in Reads:
       /\ reads[n] = NoRead
       /\ \A m \in Reads: m < n => reads[m] # NoRead
       /\ reads' = [reads EXCEPT ![n] =
                      [pc |-> "generate", timer |-> FALSE,
                       words |-> Len(Words(rendered.verse.text))]]
  /\ isReadingAloud' = TRUE
  /\ activeWordIndex' = 0
  /\ rendered' = [RenderOf(status, isLocked, isAuthorized, currentVerse)
                    EXCEPT !.isReadingAloud = TRUE]
  /\ translationRef' = defaultTranslation
  /\ lockRef' = isLocked
  /\ UNCHANGED <<variant, reactVars, sessionRefs, playVars, clock, startVars,
                 connVars, stopped, microtasks, histVars>>

\* generateContent resolves: with audio data the decode is awaited; without,
\* the flag and the index are reset.
GenerateDone(n, hasData) ==
  /\ Macrotask
  /\ reads[n].pc = "generate"
  /\ IF hasData
       THEN /\ reads' = [reads EXCEPT ![n].pc = "decode"]
            /\ UNCHANGED <<isReadingAloud, activeWordIndex>>
       ELSE /\ reads' = [reads EXCEPT ![n].pc = "done"]
            /\ isReadingAloud' = FALSE
            /\ activeWordIndex' = -1
  /\ UNCHANGED <<variant, reactVars, renderVars, sessionRefs, playVars, clock,
                 startVars, connVars, stopped, microtasks, histVars>>

\* (a catch block that only logs)
ReadFailsLogged(n) ==
  /\ Macrotask
  /\ reads[n].pc \in {"generate", "decode"}
  /\ reads' = [reads EXCEPT ![n].pc = "done"]
  /\ UNCHANGED <<variant, reactVars, renderVars, sessionRefs, playVars, clock,
                 startVars, connVars, stopped, microtasks, histVars,
                 isReadingAloud, activeWordIndex>>

\* generateContent or decodeAudioData rejects: the catch block resets the
\* flag and the index.
ReadFails(n) ==
  /\ Macrotask
  /\ reads[n].pc \in {"generate", "decode"}
  /\ reads' = [reads EXCEPT ![n].pc = "done"]
  /\ isReadingAloud' = FALSE
  /\ activeWordIndex' = -1
  /\ UNCHANGED <<variant, reactVars, renderVars, sessionRefs, playVars, clock,
                 startVars, connVars, stopped, microtasks, histVars>>

\* The decode resolves: the words of the closed-over verse are counted (at
\* the click, in the model: the closure does not change), setInterval starts
\* the highlight timer and source.start() the clip.
ReadStart(n) ==
  /\ Macrotask
  /\ reads[n].pc = "decode"
  /\ reads' = [reads EXCEPT ![n].pc = "playing", ![n].timer = TRUE]
  /\ UNCHANGED <<variant, reactVars, renderVars, sessionRefs, playVars, clock,
                 startVars, connVars, stopped, microtasks, histVars,
                 isReadingAloud, activeWordIndex>>

\* (the updater without its bound)
NextWordIndexUnclamped(prev, w) == prev + 1

\* The updater handed to setActiveWordIndex by the interval callback: the
\* next index, or the same index when the words are exhausted.
NextWordIndex(prev, w) ==
  IF variant = 1 THEN (IF prev < w - 1 THEN prev + 1 ELSE prev)
                 ELSE (IF prev + 1 < w THEN prev + 1 ELSE prev)

\* The updater's clearInterval(highlightInterval): taken when no word is left.
Exhausted(prev, w) ==
  IF variant = 1 THEN ~(prev < w - 1) ELSE ~(prev + 1 < w)

\* One tick of highlightInterval.
HighlightTick(n) ==
  /\ Macrotask
  /\ reads[n].timer
  /\ activeWordIndex' = NextWordIndex(activeWordIndex, reads[n].words)
  /\ reads' = IF Exhausted(activeWordIndex, reads[n].words)
                THEN [reads EXCEPT ![n].timer = FALSE] ELSE reads
  /\ UNCHANGED <<variant, reactVars, renderVars, sessionRefs, playVars, clock,
                 startVars, connVars, stopped, microtasks, histVars,
                 isReadingAloud>>

\* source.onended of the narration clip: clearInterval, the flag and the
\* index are reset, the clip's context is closed.
ReadEnded(n) ==
  /\ Macrotask
  /\ reads[n].pc = "playing"
  /\ reads' = [reads EXCEPT ![n].pc = "done", ![n].timer = FALSE]
  /\ isReadingAloud' = FALSE
  /\ activeWordIndex' = -1
  /\ UNCHANGED <<variant, reactVars, renderVars, sessionRefs, playVars, clock,
                 startVars, connVars, stopped, microtasks, histVars>>

\* ----------------------------------------------------------------- capture
\* scriptProcessor.onaudioprocess: one frame is encoded and its send is
\* deferred through sessionPromise.then.  The callback fires while the input
\* context processes audio, which it does until close() has completed.
OnAudioProcess(s) ==
  /\ Macrotask
  /\ capture[s]
  /\ ctx[s] \in {"open", "closing"}
  /\ nFrames < MaxFrames
  /\ nFrames' = nFrames + 1
  /\ ThenAll(s, <<SendCb(s, nFrames + 1)>>)
  /\ UNCHANGED <<variant, readVars, reactVars, renderVars, sessionRefs, playVars, clock,
                 startVars, conn, promise, capture, stopped, calls,
                 toolResponses, frames>>

\* ------------------------------------------------------------- microtasks
\* The guard of the deferred send: variant 1 tests the `status` its closure
\* captured, variant 2 sends unconditionally.
SendAllowed(s) == variant = 2 \/ closureStatus[s] # ERROR

\* The status of the response to updateVerseDisplay in variant 2, read from
\* lockRef.current when the deferred callback runs.
ResponseStatus(lk) == IF lk THEN "ignored_locked" ELSE "displayed"

\* session.sendRealtimeInput({media}) as observed: on which session, with the
\* connection and the status of that moment.
FrameSent(cb) ==
  [sess |-> cb.sess, id |-> cb.id, conn |-> conn[cb.sess], status |-> status,
   afterStop |-> stopped[cb.sess]]

\* session.sendToolResponse({functionResponses: [{id, name, response}]}).
ResponseSent(cb) ==
  [sess |-> cb.sess, id |-> cb.id, name |-> cb.name,
   response |-> IF cb.kind = "respondLock" THEN ResponseStatus(lockRef)
                                           ELSE cb.arg,
   conn |-> conn[cb.sess], status |-> status]

\* One callback of sessionPromise.then runs.
RunMicrotask ==
  /\ microtasks # <<>>
  /\ LET cb == Head(microtasks) IN
       /\ microtasks' = Tail(microtasks)
       /\ frames' = IF cb.kind = "send" /\ SendAllowed(cb.sess)
                      THEN Append(frames, FrameSent(cb)) ELSE frames
       /\ toolResponses' = IF cb.kind \in {"respond", "respondLock"}
                             THEN Append(toolResponses, ResponseSent(cb))
                             ELSE toolResponses
       /\ conn' = IF cb.kind = "close" /\ conn[cb.sess] = "open"
                    THEN [conn EXCEPT ![cb.sess] = "closing"] ELSE conn
  /\ UNCHANGED <<variant, readVars, reactVars, renderVars, sessionRefs, playVars, clock,
                 startVars, promise, reactions, capture, stopped, calls,
                 nFrames>>

\* (a failed send that tears the session down)
SendFailsEscalates ==
  /\ microtasks # <<>>
  /\ Head(microtasks).kind \in {"send", "respond", "respondLock"}
  /\ microtasks' = Tail(microtasks)
  /\ status' = ERROR
  /\ UNCHANGED <<variant, readVars, isAuthorized, currentVerse,
                 defaultTranslation, isLocked, renderVars, sessionRefs,
                 playVars, clock, startVars, connVars, stopped, histVars>>

\* One callback of sessionPromise.then runs and its sendRealtimeInput or
\* sendToolResponse throws: the rejection of a frame's send is swallowed by
\* .catch(() => {}), that of a tool response is left unhandled; either way
\* the callback is over and nothing else runs.
SendFails ==
  /\ microtasks # <<>>
  /\ Head(microtasks).kind \in {"send", "respond", "respondLock"}
  /\ microtasks' = Tail(microtasks)
  /\ UNCHANGED <<variant, readVars, reactVars, renderVars, sessionRefs,
                 playVars, clock, startVars, connVars, stopped, histVars>>

\* ------------------------------------------------------ tool-call dispatch
FC(name, reference, text, translation, lk) ==
  [name |-> name, reference |-> reference, text |-> text,
   translation |-> translation, isLocked |-> lk]

\* The function calls the remote model sends: the declared tools of the
\* variant with present and absent (empty) arguments, and an undeclared name.
UpdateCalls ==
  { FC("updateVerseDisplay", "John 3:16", "For God so loved the world", "KJV", FALSE),
    FC("updateVerseDisplay", "John 3:17", "", "", FALSE) }
SetTranslationCalls ==
  { FC("setTranslation", "", "", t, FALSE) : t \in {"KJV", ""} }
ToggleCalls ==
  { FC("toggleVerseLock", "", "", "", b) : b \in BOOLEAN }
UnknownCalls == { FC("unknownTool", "", "", "", FALSE) }
FunctionCalls ==
  UpdateCalls \cup UnknownCalls
    \cup (IF variant = 1 THEN ToggleCalls ELSE SetTranslationCalls)

Or(a, b) == IF a = "" THEN b ELSE a

\* The object handed to setCurrentVerse.
VerseOf(fc, fallback) ==
  [reference |-> Or(fc.reference, "..."), text |-> Or(fc.text, "..."),
   translation |-> Or(fc.translation, fallback)]

CallLog(acc, fc, id, s, mutated, after) ==
  [id |-> id, sess |-> s, name |-> fc.name, args |-> fc, locked |-> isLocked,
   lockRef |-> lockRef, mutated |-> mutated, before |-> acc.verse,
   after |-> after]

\* updateVerseDisplay, variant 2: the display changes unless lockRef.current
\* is set; the response is built later, in the deferred callback.
UpdateVerseDisplay2(acc, fc, id, s) ==
  LET after == IF ~lockRef THEN VerseOf(fc, translationRef) ELSE acc.verse IN
  [acc EXCEPT !.verse = after,
              !.cbs = Append(@, RespondLockCb(s, id, fc.name)),
              !.log = Append(@, CallLog(acc, fc, id, s, ~lockRef, after))]

\* updateVerseDisplay, variant 1: the display always changes.
UpdateVerseDisplay1(acc, fc, id, s) ==
  LET after == VerseOf(fc, "NIV") IN
  [acc EXCEPT !.verse = after,
              !.cbs = Append(@, RespondCb(s, id, fc.name, "displayed")),
              !.log = Append(@, CallLog(acc, fc, id, s, TRUE, after))]

\* A setTranslation branch that changes the default and answers nothing.
SetTranslationUnanswered(acc, fc, id, s) ==
  LET newTranslation == Or(fc.translation, "NIV") IN
  [acc EXCEPT !.trans = newTranslation,
              !.log = Append(@, CallLog(acc, fc, id, s, FALSE, acc.verse))]

\* A setTranslation branch that honours the lock: while lockRef is set the
\* default stays and the response carries the old one.
SetTranslationUnlessLocked(acc, fc, id, s) ==
  LET newTranslation == IF lockRef THEN acc.trans ELSE Or(fc.translation, "NIV") IN
  [acc EXCEPT !.trans = newTranslation,
              !.cbs = Append(@, RespondCb(s, id, fc.name, newTranslation)),
              !.log = Append(@, CallLog(acc, fc, id, s, FALSE, acc.verse))]

\* setTranslation (variant 2): setDefaultTranslation, then the response with
\* the new default is deferred through sessionPromise.then.
SetTranslation(acc, fc, id, s) ==
  LET newTranslation == Or(fc.translation, "NIV") IN
  [acc EXCEPT !.trans = newTranslation,
              !.cbs = Append(@, RespondCb(s, id, fc.name, newTranslation)),
              !.log = Append(@, CallLog(acc, fc, id, s, FALSE, acc.verse))]

\* A toggleVerseLock branch that flips the lock instead of setting it.
ToggleVerseLockFlip(acc, fc, id, s) ==
  [acc EXCEPT !.locked = ~acc.locked,
              !.cbs = Append(@, RespondCb(s, id, fc.name,
                                         IF ~acc.locked THEN "locked" ELSE "unlocked")),
              !.log = Append(@, CallLog(acc, fc, id, s, FALSE, acc.verse))]

\* toggleVerseLock (variant 1): setIsLocked(args.isLocked), then the response
\* {locked: args.isLocked} is deferred through sessionPromise.then.
ToggleVerseLock(acc, fc, id, s) ==
  [acc EXCEPT !.locked = fc.isLocked,
              !.cbs = Append(@, RespondCb(s, id, fc.name,
                                         IF fc.isLocked THEN "locked" ELSE "unlocked")),
              !.log = Append(@, CallLog(acc, fc, id, s, FALSE, acc.verse))]

\* An unmatched name answered with an error response.
IgnoredAnswered(acc, fc, id, s) ==
  [acc EXCEPT !.cbs = Append(@, RespondCb(s, id, fc.name, "unknown_function")),
              !.log = Append(@, CallLog(acc, fc, id, s, FALSE, acc.verse))]

\* a name no branch of the if / else-if chain matches: nothing happens.
Ignored(acc, fc, id, s) ==
  [acc EXCEPT !.log = Append(@, CallLog(acc, fc, id, s, FALSE, acc.verse))]

\* The body of `for (const fc of message.toolCall.functionCalls)`.
DispatchCall(acc, fc, id, s) ==
  IF fc.name = "updateVerseDisplay"
    THEN IF variant = 1 THEN UpdateVerseDisplay1(acc, fc, id, s)
                        ELSE UpdateVerseDisplay2(acc, fc, id, s)
  ELSE IF variant = 1 /\ fc.name = "toggleVerseLock"
    THEN ToggleVerseLock(acc, fc, id, s)
  ELSE IF variant = 2 /\ fc.name = "setTranslation"
    THEN SetTranslation(acc, fc, id, s)
  ELSE Ignored(acc, fc, id, s)

RECURSIVE DispatchAll(_, _, _, _)
DispatchAll(fcs, i, acc, s) ==
  IF i > Len(fcs) THEN acc
  ELSE DispatchAll(fcs, i + 1,
                   DispatchCall(acc, fcs[i], Len(calls) + i, s), s)

Batches ==
  UNION { [1..n -> FunctionCalls] : n \in 0..MaxBatch }

\* ---------------------------------------------------------------- onmessage
\* The audio part of onmessage up to `await decodeAudioData`: the cursor is
\* clamped to the clock of audioContextsRef.current.output and the handler
\* suspends.
Clamp(next, now) == Max(next, now)

Chunk(s, dur, intr) ==
  [sess |-> s, id |-> nChunks + 1, dur |-> dur, arrival |-> clock,
   intr |-> intr, after |-> freshStop, stale |-> FALSE]

\* callbacks.onmessage for one LiveServerMessage: its function calls fcs
\* (none when the message has no toolCall), its audio chunk of duration dur
\* (0 when it has no inlineData) and its interrupted flag.  A message with
\* audio suspends at the decode; the rest of the handler is DecodeDone.
OnMessage(s, fcs, dur, intr) ==
  /\ Macrotask
  /\ conn[s] \in {"open", "closing"}
  /\ fcs # <<>> \/ dur > 0 \/ intr
  /\ Len(calls) + Len(fcs) <= MaxCalls
  /\ dur > 0 => nChunks < MaxChunks
  /\ LET r == DispatchAll(fcs, 1,
                          [verse |-> currentVerse, trans |-> defaultTranslation,
                           locked |-> isLocked, cbs |-> <<>>, log |-> <<>>], s)
     IN /\ currentVerse' = r.verse
        /\ defaultTranslation' = r.trans
        /\ isLocked' = r.locked
        /\ ThenAll(s, r.cbs)
        /\ calls' = calls \o r.log
  /\ IF dur > 0 /\ audioContextsRef # 0
       THEN /\ nextStartTimeRef' = Clamp(nextStartTimeRef, clock)
            /\ inflight' = Append(inflight, Chunk(s, dur, intr))
            /\ nChunks' = nChunks + 1
            /\ freshStop' = NoStop
            /\ UNCHANGED <<sourcesRef, sched>>
       ELSE IF intr
         THEN /\ StopAllAudio("interrupted", sourcesRef, inflight)
              /\ UNCHANGED nChunks
         ELSE UNCHANGED playVars
  /\ UNCHANGED <<variant, readVars, status, isAuthorized, renderVars, sessionRefs, clock,
                 startVars, conn, promise, capture, stopped, toolResponses,
                 frames, nFrames>>

\* source.start(when): a start time that has passed plays at once.
PlayStart(when, now) == Max(when, now)

Source(c, when) ==
  [id |-> c.id, when |-> when, start |-> PlayStart(when, clock),
   end |-> PlayStart(when, clock) + c.dur, arrival |-> c.arrival,
   after |-> c.after, stale |-> c.stale]

\* The handler of chunk inflight[i] resumes after the decode: the source is
\* started at the cursor as it is now, the cursor advances by the duration,
\* the source joins sourcesRef; then the interrupted flag of the same message
\* is served.
DecodeDone(i) ==
  /\ Macrotask
  /\ i \in 1..Len(inflight)
  /\ LET c == inflight[i]
         src == Source(c, nextStartTimeRef)
         rest == [j \in 1..(Len(inflight) - 1) |->
                    IF j < i THEN inflight[j] ELSE inflight[j + 1]]
     IN IF c.intr
          THEN StopAllAudio("interrupted", sourcesRef \cup {src}, rest)
          ELSE /\ sourcesRef' = sourcesRef \cup {src}
               /\ nextStartTimeRef' = nextStartTimeRef + c.dur
               /\ sched' = Append(sched, src)
               /\ inflight' = rest
               /\ UNCHANGED freshStop
  /\ UNCHANGED <<variant, readVars, reactVars, renderVars, sessionRefs, nChunks, clock,
                 startVars, connVars, stopped, microtasks, histVars>>

\* source.onended: a source that has played to its end leaves sourcesRef.
OnEnded(src) ==
  /\ Macrotask
  /\ src \in sourcesRef
  /\ clock >= src.end
  /\ sourcesRef' = sourcesRef \ {src}
  /\ UNCHANGED <<variant, readVars, reactVars, renderVars, sessionRefs, nextStartTimeRef,
                 inflight, nChunks, sched, freshStop, clock, startVars,
                 connVars, stopped, microtasks, histVars>>

\* The output context's clock advances while the context runs.
Tick ==
  /\ Macrotask
  /\ audioContextsRef # 0
  /\ ctx[audioContextsRef] \in {"open", "closing"}
  /\ clock < MaxTime
  /\ clock' = clock + 1
  /\ UNCHANGED <<variant, readVars, reactVars, renderVars, sessionRefs, playVars,
                 startVars, connVars, stopped, microtasks, histVars>>

\* -------------------------------------------------------- specifications
Durations == {1, 2}

Next ==
  \/ \E b \in {"true", "false"}: CheckAuth(b)
  \/ HandleAuthorize
  \/ Reset
  \/ Render
  \/ StartSession
  \/ \E s \in Sessions: GetUserMediaOk(s)
  \/ \E s \in Sessions: StartFails(s)
  \/ \E s \in Sessions: ResumeOk(s)
  \/ \E s \in Sessions: OnOpen(s)
  \/ \E s \in Sessions: PromiseResolve(s)
  \/ \E s \in Sessions, nf \in BOOLEAN: OnError(s, nf)
  \/ \E s \in Sessions: OnClose(s)
  \/ StopSession
  \/ \E s \in Sessions: CtxClosed(s)
  \/ ToggleLock
  \/ \E s \in Sessions: OnAudioProcess(s)
  \/ RunMicrotask
  \/ SendFails
  \/ \E s \in Sessions, fcs \in Batches, d \in {0} \cup Durations, i \in BOOLEAN:
       OnMessage(s, fcs, d, i)
  \/ \E i \in 1..MaxChunks: DecodeDone(i)
  \/ \E src \in sourcesRef: OnEnded(src)
  \/ Tick
  \/ HandleReadAloud
  \/ \E n \in Reads, d \in BOOLEAN: GenerateDone(n, d)
  \/ \E n \in Reads: ReadFails(n)
  \/ \E n \in Reads: ReadStart(n)
  \/ \E n \in Reads: HighlightTick(n)
  \/ \E n \in Reads: ReadEnded(n)

Spec == Init /\ [][Next]_vars
SpecV1 == InitV1 /\ [][Next]_vars

\* The dispatcher at work: sessions are started, opened, stopped and closed,
\* toolCall messages arrive, the user toggles the lock.  No audio either way.
\* SpecDispatch runs either variant of App, SpecDispatchV1 the first.
NextDispatch ==
  \/ CheckAuth("true")
  \/ Render
  \/ StartSession /\ pc[1] = "unused"
  \/ GetUserMediaOk(1)
  \/ ResumeOk(1)
  \/ OnOpen(1)
  \/ PromiseResolve(1)
  \/ OnClose(1)
  \/ StopSession
  \/ ToggleLock
  \/ RunMicrotask
  \/ \E fcs \in Batches: OnMessage(1, fcs, 0, FALSE)

SpecDispatch == InitAny /\ [][NextDispatch]_vars
SpecDispatchV2 == Init /\ [][NextDispatch]_vars
SpecDispatchV1 == InitV1 /\ [][NextDispatch]_vars

\* The playback scheduler at work in one session: chunks and interruptions
\* arrive, decodes complete, the clock advances, the user stops the session.
\* Nothing the scheduler does goes through the session promise, which stays
\* pending here (stopSession's close waits on it).
NextPlayback ==
  \/ CheckAuth("true")
  \/ Render
  \/ StartSession /\ pc[1] = "unused"
  \/ GetUserMediaOk(1)
  \/ ResumeOk(1)
  \/ OnOpen(1)
  \/ StopSession
  \/ CtxClosed(1)
  \/ \E d \in {0} \cup Durations, i \in BOOLEAN: OnMessage(1, <<>>, d, i)
  \/ \E i \in 1..MaxChunks: DecodeDone(i)
  \/ \E src \in sourcesRef: OnEnded(src)
  \/ Tick

SpecPlayback == Init /\ [][NextPlayback]_vars

\* The session lifecycle and the capture pipeline: starts, failures, errors,
\* stops and closes of up to MaxSessions sessions, with capture callbacks.
NextSession ==
  \/ \E b \in {"true", "false"}: CheckAuth(b)
  \/ HandleAuthorize
  \/ Render
  \/ StartSession
  \/ \E s \in Sessions: GetUserMediaOk(s)
  \/ \E s \in Sessions: StartFails(s)
  \/ \E s \in Sessions: ResumeOk(s)
  \/ \E s \in Sessions: OnOpen(s)
  \/ \E s \in Sessions: PromiseResolve(s)
  \/ \E s \in Sessions, nf \in BOOLEAN: OnError(s, nf)
  \/ \E s \in Sessions: OnClose(s)
  \/ StopSession
  \/ \E s \in Sessions: CtxClosed(s)
  \/ \E s \in Sessions: OnAudioProcess(s)
  \/ RunMicrotask

SpecSession == Init /\ [][NextSession]_vars
SpecSessionV1 == InitV1 /\ [][NextSession]_vars

\* The capture pipeline of one session: capture callbacks fire from onopen
\* on, before and after the session promise resolves, until the input
\* context has closed; the deferred sends run as microtasks.
NextCapture ==
  \/ CheckAuth("true")
  \/ Render
  \/ StartSession /\ pc[1] = "unused"
  \/ GetUserMediaOk(1)
  \/ ResumeOk(1)
  \/ OnOpen(1)
  \/ PromiseResolve(1)
  \/ OnAudioProcess(1)
  \/ RunMicrotask
  \/ StopSession
  \/ CtxClosed(1)
  \/ OnClose(1)

SpecCapture == InitAny /\ [][NextCapture]_vars

\* Sends that fail: one session captures frames and answers commands, and
\* any single sendRealtimeInput or sendToolResponse may throw.
NextSendFailure ==
  \/ CheckAuth("true")
  \/ Render
  \/ StartSession /\ pc[1] = "unused"
  \/ GetUserMediaOk(1)
  \/ ResumeOk(1)
  \/ OnOpen(1)
  \/ PromiseResolve(1)
  \/ OnAudioProcess(1)
  \/ \E fc \in UpdateCalls: OnMessage(1, <<fc>>, 0, FALSE)
  \/ RunMicrotask
  \/ SendFails

SpecSendFailure == InitAny /\ [][NextSendFailure]_vars

\* Narration of the displayed verse: one session brings verses to the
\* display, the user asks for them to be read aloud, the highlight timer
\* ticks, the clip ends or the request fails.  SpecReadAloud runs either
\* variant of App.
NextReadAloud ==
  \/ CheckAuth("true")
  \/ Render
  \/ StartSession /\ pc[1] = "unused"
  \/ GetUserMediaOk(1)
  \/ ResumeOk(1)
  \/ OnOpen(1)
  \/ \E fc \in UpdateCalls: OnMessage(1, <<fc>>, 0, FALSE)
  \/ HandleReadAloud
  \/ \E n \in Reads, d \in BOOLEAN: GenerateDone(n, d)
  \/ \E n \in Reads: ReadFails(n)
  \/ \E n \in Reads: ReadStart(n)
  \/ \E n \in Reads: HighlightTick(n)
  \/ \E n \in Reads: ReadEnded(n)

SpecReadAloud == InitAny /\ [][NextReadAloud]_vars

\* The same with the promises and the clip of a narration settling: the
\* request to generateContent resolves or rejects, so does the decode, and a
\* clip that was started plays to its end.
FairReadAloud ==
  /\ SpecReadAloud
  /\ \A n \in Reads:
       /\ WF_vars((\E d \in BOOLEAN: GenerateDone(n, d)) \/ ReadFails(n))
       /\ WF_vars(ReadStart(n) \/ ReadFails(n))
       /\ WF_vars(ReadEnded(n))

\* The status machine by itself: starts, acquisition failures, opens, errors,
\* closes and stops of up to MaxSessions startSession calls.  No capture, no
\* messages; the session promises stay pending.
NextLifecycle ==
  \/ CheckAuth("true")
  \/ HandleAuthorize
  \/ Reset
  \/ Render
  \/ StartSession
  \/ \E s \in Sessions: GetUserMediaOk(s)
  \/ \E s \in Sessions: StartFails(s)
  \/ \E s \in Sessions: ResumeOk(s)
  \/ \E s \in Sessions: OnOpen(s)
  \/ \E s \in Sessions, nf \in BOOLEAN: OnError(s, nf)
  \/ \E s \in Sessions: OnClose(s)
  \/ StopSession
  \/ \E s \in Sessions: CtxClosed(s)

SpecLifecycle == Init /\ [][NextLifecycle]_vars

\* A session is superseded: stopSession has run on it and startSession has
\* been called again since.
Superseded(s) ==
  stopped[s] /\ \E t \in Sessions: t > s /\ pc[t] # "unused"

\* The first session is stopped and a second one started; the callbacks of
\* the first keep arriving: messages with a command or a chunk, an error,
\* the close.  (The session promises stay pending: nothing here waits on them.)
NextSupersede ==
  \/ CheckAuth("true")
  \/ Render
  \/ StartSession
  \/ \E s \in Sessions: GetUserMediaOk(s)
  \/ \E s \in Sessions: ResumeOk(s)
  \/ \E s \in Sessions: OnOpen(s)
  \/ StopSession
  \/ Superseded(1) /\ OnClose(1)
  \/ \E nf \in BOOLEAN: Superseded(1) /\ OnError(1, nf)
  \/ \E fc \in UpdateCalls: Superseded(1) /\ OnMessage(1, <<fc>>, 0, FALSE)
  \/ Superseded(1) /\ OnMessage(1, <<>>, 1, FALSE)
  \/ \E i \in 1..MaxChunks: DecodeDone(i)

SpecSupersede == Init /\ [][NextSupersede]_vars

\* ------------------------------------------------------------------ claims
Recognized(c) ==
  c.name = "updateVerseDisplay"
    \/ (variant = 1 /\ c.name = "toggleVerseLock")
    \/ (variant = 2 /\ c.name = "setTranslation")

ResponsesTo(c) ==
  { j \in 1..Len(toolResponses) : toolResponses[j].id = c.id }

IsResponseTo(cb, c) ==
  cb.kind \in {"respond", "respondLock"} /\ cb.id = c.id

PendingFor(c) ==
  Cardinality({ j \in 1..Len(microtasks) : IsResponseTo(microtasks[j], c) })
    + Cardinality({ j \in 1..Len(reactions[c.sess]) :
                      IsResponseTo(reactions[c.sess][j], c) })

C2_ResponseMatchesAction ==
  \A j \in 1..Len(toolResponses):
    LET r == toolResponses[j] IN
    r.name = "updateVerseDisplay" =>
      (r.response = "displayed" <=> calls[r.id].mutated)

\* C3: every recognized command has exactly one response, sent or still
\* queued behind the session promise, never none and never two, and the
\* response carries the command's id and name.
C3_ExactlyOneResponse ==
  \A i \in 1..Len(calls):
    LET c == calls[i] IN
    Recognized(c) =>
      /\ Cardinality(ResponsesTo(c)) + PendingFor(c) = 1
      /\ \A j \in ResponsesTo(c): toolResponses[j].name = c.name

\* C3 witness: two recognized commands of one message have both been answered.
C3_Witness ==
  /\ Len(calls) >= 2
  /\ Recognized(calls[1]) /\ Recognized(calls[2])
  /\ calls[1].name # calls[2].name
  /\ Len(toolResponses) = 2
  /\ microtasks = <<>>

\* C4: no two playback windows overlap: of the chunks started since the last
\* hard stop, each starts playing no earlier than every earlier one ends.
C4_NoOverlap ==
  \A i, j \in 1..Len(sched): i < j => sched[j].start >= sched[i].end

\* C5: the first chunk received after an interruption that stopped K >= 1
\* playing chunks is scheduled at the output clock time of its arrival.
C5_RestartAtClock ==
  \A i \in 1..Len(sched):
    LET e == sched[i] IN
    (e.after.by = "interrupted" /\ e.after.k >= 1 /\ ~e.stale)
      => e.when = e.arrival

\* C6: at most one session is live: never two live microphone streams, two
\* open pairs of audio contexts or two remote sessions connecting or open.
C6_OneSession ==
  /\ Cardinality({s \in Sessions : mic[s] = "live"}) <= 1
  /\ Cardinality({s \in Sessions : ctx[s] = "open"}) <= 1
  /\ Cardinality({s \in Sessions : conn[s] \in {"connecting", "open"}}) <= 1

\* C7: no audio frame is handed to the session after stopSession has returned
\* for that session.
C7_NoFrameAfterStop ==
  \A j \in 1..Len(frames): ~frames[j].afterStop

\* C8: stopSession taken in Listening leaves, when it returns, the active set
\* empty, the cursor at 0, the microphone tracks stopped, both contexts
\* closing and the status Idle.
C8_StopReleasesAll ==
  [][(status = LISTENING /\ StopSession) =>
       /\ sourcesRef' = {}
       /\ nextStartTimeRef' = 0
       /\ micStreamRef # 0 /\ mic'[micStreamRef] = "stopped"
       /\ audioContextsRef # 0 /\ ctx'[audioContextsRef] \in {"closing", "closed"}
       /\ status' = IDLE]_vars

\* C9: every tool response goes out on the session that delivered its
\* command, and none goes out once that session is closing or closed.
C9_NoResponseAfterClose ==
  \A j \in 1..Len(toolResponses):
    LET r == toolResponses[j] IN
    /\ r.sess = calls[r.id].sess
    /\ r.conn = "open"

\* C10: sendRealtimeInput and sendToolResponse are invoked only while the
\* status is Listening.
C10_OutboundOnlyListening ==
  /\ \A j \in 1..Len(frames): frames[j].status = LISTENING
  /\ \A j \in 1..Len(toolResponses): toolResponses[j].status = LISTENING

\* C11: a callback of a superseded session (onmessage and its continuation
\* after the decode, onerror, onclose) changes neither the status, the verse,
\* the lock, the default translation nor the active set or the cursor.
CallbackOf(s) ==
  \/ OnClose(s)
  \/ \E nf \in BOOLEAN: OnError(s, nf)
  \/ \E fcs \in Batches, d \in {0} \cup Durations, i \in BOOLEAN:
       OnMessage(s, fcs, d, i)
  \/ \E i \in 1..Len(inflight): inflight[i].sess = s /\ DecodeDone(i)

C11_StaleCallbacksInert ==
  [][\A s \in Sessions:
       (Superseded(s) /\ CallbackOf(s)) =>
         UNCHANGED <<status, currentVerse, isLocked, defaultTranslation,
                     sourcesRef, nextStartTimeRef>>]_vars

\* C12: once onerror has put a session in Error, the onclose callback of
\* that session leaves the status at Error.
C12_ErrorTerminal ==
  [][\A s \in Sessions:
       (status = ERROR /\ conn[s] = "failed" /\ OnClose(s)) => status' = ERROR]_vars

\* C13: every onerror callback, whatever its message and whatever the status,
\* leaves the status at Error.
C13_OnErrorSetsError ==
  [][\A s \in Sessions, nf \in BOOLEAN: OnError(s, nf) => status' = ERROR]_vars

\* C14: an updateVerseDisplay that arrives after the user has toggled the lock
\* on (and before it is toggled off) finds lockRef already set, leaves the
\* verse as it was and is answered "ignored_locked".
C14_LockedAfterToggle ==
  \A i \in 1..Len(calls):
    LET c == calls[i] IN
    (c.name = "updateVerseDisplay" /\ c.locked) =>
      /\ c.lockRef
      /\ c.after = c.before
      /\ \A j \in ResponsesTo(c): toolResponses[j].response = "ignored_locked"

\* C15: a user lock toggle while Listening hands a message to the session:
\* the click, with the effects of its render, queues a send behind the
\* session promise.
C15_ToggleIsSynced ==
  [][(status = LISTENING /\ ToggleLock) =>
       (microtasks' # microtasks \/ reactions' # reactions)]_vars

\* C16: an accepted updateVerseDisplay that omits its translation shows the
\* value of the latest setTranslation dispatched before it, in the same
\* message or an earlier one.
SetTranslationsBefore(i) ==
  { j \in 1..(i - 1) : calls[j].name = "setTranslation" }

LatestIn(S) == CHOOSE j \in S : \A k \in S : k <= j

C16_LatestTranslationUsed ==
  \A i \in 1..Len(calls):
    LET c == calls[i] IN
    (/\ c.name = "updateVerseDisplay"
     /\ c.args.translation = ""
     /\ c.mutated
     /\ SetTranslationsBefore(i) # {}) =>
      c.after.translation =
        Or(calls[LatestIn(SetTranslationsBefore(i))].args.translation, "NIV")

\* The callbacks a handler of session s has just handed to
\* sessionPromise.then (handlers start with an empty microtask queue).
NewCbs(s) ==
  IF promise[s] = "resolved" THEN microtasks'
  ELSE SubSeq(reactions'[s], Len(reactions[s]) + 1, Len(reactions'[s]))

\* The function calls of the message a step has just dispatched, as logged.
NewFcs ==
  [i \in 1..(Len(calls') - Len(calls)) |-> calls'[Len(calls) + i].args]

OnlyNamed(fcs, name) ==
  fcs # <<>> /\ \A i \in 1..Len(fcs): fcs[i].name = name

\* C17: a message of setTranslation commands, locked or not, sets the default
\* translation to the (last) command's value, 'NIV' when the value is absent,
\* leaves the verse and the lock alone and queues for each command one
\* response carrying its value.
C17_SetTranslationApplied ==
  [][\A s \in Sessions:
       LET fcs == NewFcs IN
       (OnlyNamed(fcs, "setTranslation") /\ OnMessage(s, fcs, 0, FALSE)) =>
         /\ defaultTranslation' = Or(fcs[Len(fcs)].translation, "NIV")
         /\ currentVerse' = currentVerse
         /\ isLocked' = isLocked
         /\ Len(NewCbs(s)) = Len(fcs)
         /\ \A i \in 1..Len(fcs):
              /\ NewCbs(s)[i].kind = "respond"
              /\ NewCbs(s)[i].id = Len(calls) + i
              /\ NewCbs(s)[i].name = "setTranslation"
              /\ NewCbs(s)[i].arg = Or(fcs[i].translation, "NIV")]_vars

\* C17 witness: a setTranslation{KJV} that arrived while the lock was on has
\* been applied and answered.
C17_Witness ==
  \E j \in 1..Len(toolResponses):
    LET r == toolResponses[j] IN
    /\ r.name = "setTranslation" /\ r.response = "KJV"
    /\ calls[r.id].locked /\ calls[r.id].lockRef
    /\ defaultTranslation = "KJV"

\* C18: a message of toggleVerseLock commands sets the lock to the (last)
\* command's isLocked whatever it was, leaves the verse alone and queues for
\* each command one response carrying its isLocked.
C18_ToggleVerseLockSets ==
  [][\A s \in Sessions:
       LET fcs == NewFcs IN
       (OnlyNamed(fcs, "toggleVerseLock") /\ OnMessage(s, fcs, 0, FALSE)) =>
         /\ isLocked' = fcs[Len(fcs)].isLocked
         /\ currentVerse' = currentVerse
         /\ Len(NewCbs(s)) = Len(fcs)
         /\ \A i \in 1..Len(fcs):
              /\ NewCbs(s)[i].kind = "respond"
              /\ NewCbs(s)[i].id = Len(calls) + i
              /\ NewCbs(s)[i].name = "toggleVerseLock"
              /\ NewCbs(s)[i].arg =
                   IF fcs[i].isLocked THEN "locked" ELSE "unlocked"]_vars

\* C18 witness: the lock was on, a toggleVerseLock{isLocked: true} arrived,
\* the lock is still on and the command has been answered.
C18_Witness ==
  \E j \in 1..Len(toolResponses):
    LET r == toolResponses[j] IN
    /\ r.name = "toggleVerseLock" /\ r.response = "locked"
    /\ calls[r.id].locked /\ calls[r.id].args.isLocked
    /\ isLocked

\* C19: a message holding a command of an unknown name has the effect of the
\* same message without that command: nothing is queued for the unknown
\* command, the others are dispatched, and a message of unknown commands
\* alone changes nothing.
C19_UnknownIgnored ==
  [][\A s \in Sessions:
       LET fcs == NewFcs IN
       ((\E i \in 1..Len(fcs): ~Recognized(fcs[i])) /\ OnMessage(s, fcs, 0, FALSE)) =>
         LET kept == SelectSeq(fcs, Recognized)
             r == DispatchAll(kept, 1,
                              [verse |-> currentVerse, trans |-> defaultTranslation,
                               locked |-> isLocked, cbs |-> <<>>, log |-> <<>>], s)
         IN /\ currentVerse' = r.verse
            /\ defaultTranslation' = r.trans
            /\ isLocked' = r.locked
            /\ status' = status
            /\ toolResponses' = toolResponses
            /\ Len(NewCbs(s)) = Len(kept)
            /\ \A j \in 1..Len(kept): NewCbs(s)[j].name = kept[j].name]_vars

\* C19 witness: an unknown command came first, a recognized one after it, and
\* only the second has been answered.
C19_Witness ==
  /\ Len(calls) = 2
  /\ ~Recognized(calls[1]) /\ Recognized(calls[2])
  /\ Len(toolResponses) = 1 /\ toolResponses[1].id = 2
  /\ microtasks = <<>> /\ reactions[1] = <<>>

\* The reference recurrence of the playback cursor over the chunks started
\* since the last hard stop, taken in the order of their arrival (chunk ids
\* are given on arrival): n_0 = 0, n_i = max(n_{i-1}, t_i) + d_i.
StartedWithId(k) == {j \in 1..Len(sched) : sched[j].id = k}

RECURSIVE RefCursor(_)
RefCursor(k) ==
  IF k = 0 THEN 0
  ELSE IF StartedWithId(k) = {} THEN RefCursor(k - 1)
  ELSE LET e == sched[CHOOSE j \in StartedWithId(k): TRUE]
       IN Max(RefCursor(k - 1), e.arrival) + (e.end - e.start)

\* C20: the playback cursor follows the reference recurrence: once every
\* chunk received since the last hard stop has been started, each was started
\* at max(n_{i-1}, t_i) and nextStartTime is n_i of the last one, also when a
\* chunk arrived while an earlier chunk's decode was still awaited.  (Stated
\* for the decodes that complete in the order of arrival.)
C20_CursorFollowsRecurrence ==
  (/\ inflight = <<>>
   /\ \A j \in 1..Len(sched): ~sched[j].stale
   /\ \A i, j \in 1..Len(sched): i < j => sched[i].id < sched[j].id) =>
    /\ \A j \in 1..Len(sched):
         sched[j].when = Max(RefCursor(sched[j].id - 1), sched[j].arrival)
    /\ nextStartTimeRef = RefCursor(nChunks)

\* C21: inbound chunks are scheduled in arrival order: of two chunks received
\* with no hard stop in between, the one received first has a scheduled
\* start time that is not later than the other's, however the decodes of the
\* two handlers interleave.
C21_ArrivalOrder ==
  \A i, j \in 1..Len(sched):
    (~sched[i].stale /\ ~sched[j].stale /\ sched[i].id < sched[j].id)
      => sched[i].when <= sched[j].when

\* C22: when getUserMedia or a resume() fails during a start, ai.live.connect
\* is never called for that start (no connection, no session promise, then
\* or later) and the status the failure leaves is ERROR.
C22_FailedStartNeverConnects ==
  [][\A s \in Sessions:
       /\ StartFails(s) => status' = ERROR
       /\ pc'[s] = "failed" =>
            (conn'[s] = "none" /\ promise'[s] = "none" /\ sessionPromiseRef' # s)]_vars

\* C22 witness: a start has failed after its microphone was acquired, at a
\* resume(), and the status is ERROR.
C22_Witness ==
  \E s \in Sessions: pc[s] = "failed" /\ mic[s] = "live" /\ status = ERROR

\* C23: a remote close received in LISTENING on an open connection leaves the
\* state a local stop leaves: status IDLE, the microphone tracks stopped,
\* both audio contexts closed or closing, playback hard-interrupted (no
\* active source, cursor at 0).
C23_RemoteCloseReleases ==
  [][\A s \in Sessions:
       (status = LISTENING /\ conn[s] = "open" /\ sessionPromiseRef = s
          /\ OnClose(s)) =>
         /\ status' = IDLE
         /\ mic'[s] # "live"
         /\ ctx'[s] # "open"
         /\ sourcesRef' = {} /\ nextStartTimeRef' = 0]_vars

\* A startSession call whose resources were held when the status became
\* ERROR: it failed after acquiring them, or its connection failed.
HeldAtError(s) ==
  /\ pc[s] = "failed" \/ conn[s] = "failed"
  /\ mic[s] = "live" \/ ctx[s] = "open"

\* C24: resources held when the status became ERROR are released by the user
\* action offered in ERROR before the resources of a new session are
\* acquired: the getUserMedia of a start made from the ERROR screen does not
\* resolve while an earlier call still holds a live microphone or open
\* contexts from its error.
C24_ReleasedBeforeRestart ==
  [][\A t \in Sessions:
       (closureStatus[t] = ERROR /\ GetUserMediaOk(t)) =>
         \A s \in Sessions: s < t => ~HeldAtError(s)]_vars

\* The startSession call made last.
LatestStart(s) == pc[s] # "unused" /\ \A t \in Sessions: t > s => pc[t] = "unused"

\* C25: the status enters LISTENING only from CONNECTING and only by the
\* onopen of the session of the most recent start; never directly from IDLE
\* or ERROR, and by no other event.
C25_ListeningOnlyByOpen ==
  [][(status # LISTENING /\ status' = LISTENING) =>
       /\ status = CONNECTING
       /\ \E s \in Sessions: LatestStart(s) /\ OnOpen(s)]_vars

\* C26: during the narration of a verse of W words the highlighted index
\* starts at 0 (set by the request), each timer tick increases it by exactly
\* 1 or, at W - 1, leaves it; it never exceeds W - 1; and once at W - 1 while
\* the clip plays it keeps that value until the clip ends.
C26_HighlightAdvances ==
  [][\A n \in Reads:
       LET w == reads[n].words IN
       /\ (HandleReadAloud /\ reads[n] = NoRead /\ reads'[n] # NoRead)
            => activeWordIndex' = 0
       /\ HighlightTick(n) =>
            /\ activeWordIndex >= 0
            /\ activeWordIndex' =
                 IF activeWordIndex < w - 1 THEN activeWordIndex + 1 ELSE w - 1
       /\ reads'[n].pc \in {"generate", "decode", "playing"}
            => (activeWordIndex' >= 0 /\ activeWordIndex' <= reads'[n].words - 1)
       /\ (reads[n].pc = "playing" /\ activeWordIndex = w - 1 /\ ~ReadEnded(n))
            => activeWordIndex' = w - 1]_vars

\* C26 witness: the clip of a six-word verse plays, the index has advanced
\* to 5 and the timer has run out.
C26_Witness ==
  \E n \in Reads:
    /\ reads[n].pc = "playing" /\ reads[n].words = 6
    /\ activeWordIndex = 5 /\ ~reads[n].timer

\* C27: when the clip ends, or when a tick arrives with the index already at
\* the last word (timer exhaustion), the highlight timer is cancelled and the
\* index is cleared to -1; no later tick changes the index.
C27_TimerEndClears ==
  [][\A n \in Reads:
       /\ (ReadEnded(n)
             \/ (HighlightTick(n) /\ activeWordIndex = reads[n].words - 1))
            => (~reads'[n].timer /\ activeWordIndex' = -1)
       /\ (~reads[n].timer /\ reads[n].pc \in {"playing", "done"})
            => ~HighlightTick(n)]_vars

\* The frames whose send is still deferred, in the order in which they will
\* run: the microtask queue, then the reactions of the pending promise.
DeferredSends(s) ==
  SelectSeq(microtasks \o reactions[s],
            LAMBDA cb: cb.kind = "send" /\ cb.sess = s)

\* C28: outbound frames are transmitted in capture order: on one session, a
\* frame captured earlier is handed to sendRealtimeInput before one captured
\* later, and the sends still deferred (those captured before the session
\* promise resolved among them) will run in capture order after the frames
\* already sent.
C28_CaptureOrder ==
  \A s \in Sessions:
    /\ \A i, j \in 1..Len(frames):
         (i < j /\ frames[i].sess = s /\ frames[j].sess = s)
           => frames[i].id < frames[j].id
    /\ LET q == DeferredSends(s) IN
         /\ \A i, j \in 1..Len(q): i < j => q[i].id < q[j].id
         /\ \A i \in 1..Len(frames), j \in 1..Len(q):
              frames[i].sess = s => frames[i].id < q[j].id

\* C28 witness: two frames of one session have been transmitted, none is
\* left deferred.
C28_Witness ==
  /\ Len(frames) = 2 /\ frames[1].sess = frames[2].sess
  /\ microtasks = <<>> /\ \A s \in Sessions: reactions[s] = <<>>

\* C29: a send that fails, of one frame or of one tool response, is
\* contained: status, microphone, audio contexts, verse and lock are left as
\* they were; the failed send is not queued again and nothing is sent in its
\* place; the callbacks queued behind it, the capture callback and the
\* connection are left in place, so later frames and responses go out.
C29_SendFailureContained ==
  [][SendFails =>
       /\ UNCHANGED <<status, mic, ctx, currentVerse, isLocked>>
       /\ microtasks' = Tail(microtasks) /\ reactions' = reactions
       /\ frames' = frames /\ toolResponses' = toolResponses
       /\ UNCHANGED <<capture, conn, promise, sessionPromiseRef>>]_vars

\* C29 witness: the send of the first frame failed, the second frame went
\* out afterwards, and a tool response after it.
C29_Witness ==
  /\ nFrames = 2 /\ Len(frames) = 1 /\ frames[1].id = 2
  /\ Len(toolResponses) = 1
  /\ microtasks = <<>> /\ reactions[1] = <<>>

\* C30: a hard interruption cancels the chunks in flight: a chunk whose
\* handler was suspended at its decode when stopAllAudio ran (by an
\* interrupted message or by a start) is not started and not added to the
\* active set when its handler resumes.
C30_InFlightCancelled ==
  /\ \A i \in 1..Len(sched): ~sched[i].stale
  /\ \A src \in sourcesRef: ~src.stale

\* The index the display is given fits the verse it is given with it.
IndexWithinVerse ==
  \/ activeWordIndex = -1
  \/ /\ currentVerse # NoVerse
     /\ activeWordIndex < Len(Words(currentVerse.text))

\* C31: the highlighted word index handed to the display is -1 or smaller
\* than the number of words of the verse displayed with it; in particular a
\* message whose updateVerseDisplay replaces the verse while a narration
\* advances the index leaves the index within the new verse.
C31_IndexWithinDisplayedVerse ==
  [][\A s \in Sessions, fc \in UpdateCalls:
       (IndexWithinVerse /\ OnMessage(s, <<fc>>, 0, FALSE)) =>
         IndexWithinVerse']_vars

\* C32: the local lock toggle is an involution: every toggle action flips
\* the lock flag relative to its value at the moment of the action (so two
\* consecutive toggles restore it, and a toggle after a remote
\* toggleVerseLock flips the value that command set).
C32_ToggleFlips ==
  [][ToggleLock => isLocked' = ~isLocked]_vars

\* A narration request is open: made and not yet finished.
ReadOpen(n) == reads[n].pc \in {"generate", "decode", "playing"}

\* C33: every narration request that set the flag is eventually followed by
\* the flag false and the index -1, on each outcome (the clip played to its
\* end, the response had no audio data, the request or the decode failed);
\* and while the flag is true a further request starts no second clip or
\* timer.
C33_ReadAloudSettles ==
  /\ isReadingAloud ~> (~isReadingAloud /\ activeWordIndex = -1)
  /\ [][/\ \A n \in Reads:
             (ReadOpen(n) /\ ~ReadOpen(n)') =>
               (~isReadingAloud' /\ activeWordIndex' = -1)
        /\ isReadingAloud => ~HandleReadAloud
        /\ Cardinality({n \in Reads : ReadOpen(n)'}) <= 1
        /\ Cardinality({n \in Reads : reads'[n].timer}) <= 1]_vars

\* C33 witness: two narration requests have been made, one after the other,
\* and both are over with the flag false and the index -1.
C33_Witness ==
  /\ \A n \in {1, 2}: reads[n].pc = "done"
  /\ ~isReadingAloud /\ activeWordIndex = -1

====
